---- MODULE Spec2Model ----
(***************************************************************************)
(* A model of minKP.py: the minimum-cost covering knapsack program.        *)
(* One run of main() is a behaviour: the mode argument is validated, the   *)
(* instance file is read, solve_single_knapsack or solve_multi_knapsack    *)
(* builds a PuLP problem, the problem is solved, the variable values are   *)
(* turned into the returned structure, and the result is printed.          *)
(*                                                                         *)
(* Numbers.  The solver returns reals; the program compares them with      *)
(* 1e-5 and with 0.  A real is modelled exactly as a fixed-point pair      *)
(* <<i, f>> standing for i + f/EpsDen with 0 <= f < EpsDen, so that 1e-5   *)
(* is <<0, 1>>, 1/2 is <<0, EpsDen \div 2>> and 1 is <<1, 0>>.             *)
(***************************************************************************)
EXTENDS Integers, Sequences, FiniteSets, TLC

\* ---------------------------------------------------------------- bounds
MaxKnapsacks == 2
MaxItems == 2
MaxDemand == 2
MaxCost == 2
\* the size of the problems enumerated: nb_knapsacks * nb_items
MaxCells == 4

\* 1e-5, the threshold of line 33, is EpsNum / EpsDen.
EpsNum == 1
EpsDen == 100000

\* ------------------------------------------------- fixed-point arithmetic
FxNorm(i, f) == <<i + (f \div EpsDen), f % EpsDen>>
FxInt(n) == <<n, 0>>
FxZero == <<0, 0>>
FxOne == <<1, 0>>
FxHalf == <<0, EpsDen \div 2>>
FxEps == <<0, EpsNum>>
FxAdd(a, b) == FxNorm(a[1] + b[1], a[2] + b[2])
FxNeg(a) == FxNorm(-a[1], -a[2])
FxSub(a, b) == FxAdd(a, FxNeg(b))
FxLeq(a, b) == a[1] < b[1] \/ (a[1] = b[1] /\ a[2] <= b[2])
FxLt(a, b) == a[1] < b[1] \/ (a[1] = b[1] /\ a[2] < b[2])
FxMax(a, b) == IF FxLeq(a, b) THEN b ELSE a
\* c * a for an integer coefficient c, without forming c * EpsDen * a.
FxMulPos(c, a) ==
    FxNorm(c * a[1] + (c \div EpsDen) * a[2], (c % EpsDen) * a[2])
FxMul(c, a) == IF c >= 0 THEN FxMulPos(c, a) ELSE FxNeg(FxMulPos(-c, a))
\* c / w as a fixed-point number (exact when w divides (c % w) * EpsDen).
FxRatio(c, w) == <<c \div w, ((c % w) * EpsDen) \div w>>

\* ---------------------------------------------------------- the instances
\* read_data: the five lines of the instance file as lists of integers.
SeqsUpTo(S, n) == UNION {[1..k -> S] : k \in 0..n}
DemandVals == 0..MaxDemand
WeightVals == {1, 2, EpsDen}
CostVals == 0..MaxCost

\* Files whose lines agree with the declared cardinalities.
ConsistentFiles ==
    UNION {
        {[nb_knapsacks |-> k, nb_items |-> n, demand_size |-> d,
          weight_item |-> w, cost_item |-> c] :
            d \in [1..k -> DemandVals], w \in [1..n -> WeightVals],
            c \in [1..n -> CostVals]} :
        <<k, n>> \in {kn \in (1..MaxKnapsacks) \X (0..MaxItems) :
                        kn[1] * kn[2] <= MaxCells}}

\* Files with any cardinalities and any line lengths (zero knapsacks,
\* vectors shorter or longer than declared).
AnyShapeFiles ==
    {f \in
        {[nb_knapsacks |-> k, nb_items |-> n, demand_size |-> d,
          weight_item |-> w, cost_item |-> c] :
            k \in 0..MaxKnapsacks, n \in 0..MaxItems,
            d \in SeqsUpTo({1}, MaxKnapsacks),
            w \in SeqsUpTo({1, 2}, MaxItems),
            c \in SeqsUpTo({1}, MaxItems)} :
        f.nb_knapsacks * f.nb_items <= MaxCells}

ScenarioA ==
    [nb_knapsacks |-> 1, nb_items |-> 3, demand_size |-> <<10>>,
     weight_item |-> <<5, 6, 7>>, cost_item |-> <<2, 3, 4>>]
ScenarioC ==
    [nb_knapsacks |-> 2, nb_items |-> 3, demand_size |-> <<4, 4>>,
     weight_item |-> <<4, 4, 4>>, cost_item |-> <<1, 1, 1>>]

Files == ConsistentFiles \cup AnyShapeFiles
ModeArgs == -1..3

WellFormed(f) ==
    /\ f.nb_knapsacks >= 1
    /\ Len(f.demand_size) = f.nb_knapsacks
    /\ Len(f.weight_item) = f.nb_items
    /\ Len(f.cost_item) = f.nb_items

\* Python's 0-based list access.
At(list, j) == list[j + 1]
Range(n) == 0..(n - 1)

VARIABLES
    mode,       \* int(sys.argv[2])
    file,       \* the contents of sys.argv[1]
    pc,         \* position in main
    data,       \* data_list once read_data has run
    prob,       \* the LpProblem under construction or built
    status,     \* LpStatus[prob.status]
    vals,       \* value(var) for every variable of prob
    objective,  \* value(prob.objective)
    result,     \* third component of the solve function's return value
    reported,   \* the print_*_results function has run
    exitcode    \* the process's exit status, -1 while it runs

vars == <<mode, file, pc, data, prob, status, vals, objective, result,
          reported, exitcode>>

NoData == [nb_knapsacks |-> -1]
NoProblem == [name |-> "None"]
NoResult == [kind |-> "None"]

\* ------------------------------------------------------ the PuLP problems
\* A linear expression is a sequence of terms <<coefficient, variable>>; a
\* constraint is [terms, sense, rhs]; a problem is what LpProblem holds after
\* the "prob +=" statements: its variables with their category and bounds,
\* the objective and the constraints in the order they were added.
Term(c, v) == <<c, v>>
Constraint(terms, sense, rhs) == [terms |-> terms, sense |-> sense, rhs |-> rhs]

Cat(m) == IF m = 0 THEN "Binary" ELSE "Continuous"
\* the primal maximised
PrimalSenseMax == "Maximize"
PrimalSense == "Minimize"
DualSense == "Maximize"

\* LpProblem(...) before any variable, objective or constraint is added.
NewProblem(name, sense) ==
    [name |-> name, sense |-> sense, cat |-> "Continuous", upBound |-> FALSE,
     vars |-> {}, objective |-> <<>>, constraints |-> <<>>]

X1(j) == <<"present", 0, j>>
X(i, j) == <<"present", i, j>>
V1 == <<"v_1", 0, 0>>
U(j) == <<"u_j", 0, j>>
Vi(i) == <<"vi", i, 0>>
Vj(j) == <<"vj", 0, j>>

\* the coverage constraint with its sense reversed
SinglePrimalConstraintsLeq(d) ==
    LET n == d.nb_items IN
    << Constraint([t \in 1..n |-> Term(At(d.weight_item, t - 1), X1(t - 1))],
                  "<=", At(d.demand_size, 0)) >>

\* lines 23-28
SinglePrimalConstraints(d) ==
    LET n == d.nb_items IN
    << Constraint([t \in 1..n |-> Term(At(d.weight_item, t - 1), X1(t - 1))],
                  ">=", At(d.demand_size, 0)) >>

SinglePrimalProblem(d, m) ==
    LET n == d.nb_items IN
    [name |-> "Single_minKP", sense |-> PrimalSense, cat |-> Cat(m),
     upBound |-> TRUE,
     vars |-> {X1(j) : j \in Range(n)},
     objective |-> [t \in 1..n |-> Term(At(d.cost_item, t - 1), X1(t - 1))],
     constraints |-> SinglePrimalConstraints(d)]

\* the dual objective without the item terms
SingleDualObjectiveNoU(d) == <<Term(At(d.demand_size, 0), V1)>>

\* lines 37-46
SingleDualObjective(d) ==
    LET n == d.nb_items IN
    <<Term(At(d.demand_size, 0), V1)>> \o [t \in 1..n |-> Term(-1, U(t - 1))]

SingleDualVars(d) == {V1} \cup {U(j) : j \in Range(d.nb_items)}

\* the dual constraints without the item variables
SingleDualConstraintsNoU(d) ==
    [t \in 1..d.nb_items |->
        Constraint(<<Term(At(d.weight_item, t - 1), V1)>>,
                   "<=", At(d.cost_item, t - 1))]

SingleDualConstraints(d) ==
    [t \in 1..d.nb_items |->
        Constraint(<<Term(At(d.weight_item, t - 1), V1), Term(-1, U(t - 1))>>,
                   "<=", At(d.cost_item, t - 1))]

SingleDualProblem(d) ==
    [name |-> "Dual_minKP", sense |-> DualSense, cat |-> "Continuous",
     upBound |-> FALSE,
     vars |-> SingleDualVars(d),
     objective |-> SingleDualObjective(d),
     constraints |-> SingleDualConstraints(d)]

\* lines 89-90: one coverage constraint per knapsack
CoverageConstraints(d) ==
    LET n == d.nb_items IN
    [i \in 1..d.nb_knapsacks |->
        Constraint([t \in 1..n |-> Term(At(d.weight_item, t - 1), X(i - 1, t - 1))],
                   ">=", At(d.demand_size, i - 1))]

\* no exclusivity constraint at all
ExclusivityConstraintsDropped(d) == <<>>

\* lines 93-94: one exclusivity constraint per item
ExclusivityConstraints(d) ==
    LET k == d.nb_knapsacks IN
    [j \in 1..d.nb_items |->
        Constraint([t \in 1..k |-> Term(1, X(t - 1, j - 1))], "<=", 1)]

\* lines 78-94
MultiPrimalProblem(d, m) ==
    LET k == d.nb_knapsacks
        n == d.nb_items
    IN  [name |-> "Multi_minKP", sense |-> PrimalSense, cat |-> Cat(m),
         upBound |-> TRUE,
         vars |-> {X(i, j) : i \in Range(k), j \in Range(n)},
         objective |->
            [t \in 1..(k * n) |->
                Term(At(d.cost_item, (t - 1) % n), X((t - 1) \div n, (t - 1) % n))],
         constraints |-> CoverageConstraints(d) \o ExclusivityConstraints(d)]

\* lines 107-117
MultiDualObjective(d) ==
    [t \in 1..d.nb_knapsacks |-> Term(At(d.demand_size, t - 1), Vi(t - 1))]
    \o [t \in 1..d.nb_items |-> Term(-1, Vj(t - 1))]

MultiDualConstraints(d) ==
    LET k == d.nb_knapsacks
        n == d.nb_items
    IN  [t \in 1..(k * n) |->
            Constraint(<<Term(At(d.weight_item, (t - 1) % n), Vi((t - 1) \div n)),
                         Term(-1, Vj((t - 1) % n))>>,
                       "<=", At(d.cost_item, (t - 1) % n))]

MultiDualProblem(d) ==
    [name |-> "Dual_multi_minKP", sense |-> DualSense, cat |-> "Continuous",
     upBound |-> FALSE,
     vars |-> {Vi(i) : i \in Range(d.nb_knapsacks)}
                \cup {Vj(j) : j \in Range(d.nb_items)},
     objective |-> MultiDualObjective(d),
     constraints |-> MultiDualConstraints(d)]

\* The list accesses of the build succeed (no IndexError): demand_size[i]
\* for every knapsack, weight_item[j] and cost_item[j] for every item, the
\* latter two only inside a loop over the knapsacks.
Indexable(d, k) ==
    /\ Len(d.demand_size) >= k
    /\ (k >= 1 /\ d.nb_items >= 1) =>
            /\ Len(d.weight_item) >= d.nb_items
            /\ Len(d.cost_item) >= d.nb_items

\* ------------------------------------------------------------ the solver
\* prob.solve() is the external LP/MILP solver.  Its contract: the status is
\* Optimal exactly when the problem has an optimum, and then the variable
\* values are one of the optimal solutions (which one is the solver's
\* choice); otherwise the values it leaves in the variables are not
\* determined by the problem.  Solutions are drawn from a finite grid that
\* contains the vertices of the problems built from Files.
RECURSIVE LinSum(_, _, _)
LinSum(terms, a, n) ==
    IF n = 0 THEN FxZero
    ELSE FxAdd(LinSum(terms, a, n - 1), FxMul(terms[n][1], a[terms[n][2]]))

\* value(expression) under the assignment a
LinValue(terms, a) == LinSum(terms, a, Len(terms))

Satisfies(c, a) ==
    IF c.sense = ">=" THEN FxLeq(FxInt(c.rhs), LinValue(c.terms, a))
    ELSE FxLeq(LinValue(c.terms, a), FxInt(c.rhs))

Feasible(p, a) == \A t \in 1..Len(p.constraints) : Satisfies(p.constraints[t], a)

\* Values of a variable of the primal: 0 and 1 for a binary variable; for a
\* continuous one in [0, 1] also the fractions r / w a vertex can take, w a
\* coefficient of a coverage constraint and r a part of a demand.
CoverageCoefs(p) ==
    UNION {{p.constraints[t].terms[u][1] : u \in 1..Len(p.constraints[t].terms)} :
            t \in {t \in 1..Len(p.constraints) : p.constraints[t].sense = ">="}}

CoverageRhs(p) ==
    {p.constraints[t].rhs :
        t \in {t \in 1..Len(p.constraints) : p.constraints[t].sense = ">="}}

UnitGrid(p) ==
    IF p.cat = "Binary" THEN {FxZero, FxOne}
    ELSE {FxZero, FxOne} \cup
         {FxRatio(rw[1], rw[2]) :
            rw \in {rw \in (1..MaxDemand) \X CoverageCoefs(p) :
                        /\ rw[1] < rw[2]
                        /\ \E d \in CoverageRhs(p) : rw[1] <= d}}

\* The coefficient of variable v in an expression.
RECURSIVE CoefSum(_, _, _)
CoefSum(terms, v, n) ==
    IF n = 0 THEN 0
    ELSE CoefSum(terms, v, n - 1) + (IF terms[n][2] = v THEN terms[n][1] ELSE 0)
Coef(terms, v) == CoefSum(terms, v, Len(terms))

\* In a problem without upper bounds (the duals), the variables the
\* objective penalises and those it does not.
PenaltyVars(p) == {v \in p.vars : Coef(p.objective, v) < 0}
PriceVars(p) == p.vars \ PenaltyVars(p)

\* The breakpoints of the dual function: 0 and rhs / coefficient for every
\* constraint and every price variable with a positive coefficient in it.
Breakpoints(p) ==
    {FxZero} \cup
    {FxRatio(p.constraints[t].rhs, Coef(p.constraints[t].terms, v)) :
        <<t, v>> \in {tv \in (1..Len(p.constraints)) \X PriceVars(p) :
                        Coef(p.constraints[tv[1]].terms, tv[2]) > 0}}

\* The least value >= 0 of the penalty variable u (coefficient -1 in its
\* "<=" constraints) that satisfies them, the price variables being given.
RECURSIVE LeastPenalty(_, _, _, _)
LeastPenalty(p, u, a, n) ==
    IF n = 0 THEN FxZero
    ELSE LET c == p.constraints[n]
             rest == LeastPenalty(p, u, a, n - 1)
         IN  IF Coef(c.terms, u) = 0 THEN rest
             ELSE FxMax(rest,
                        FxSub(LinValue(c.terms, [a EXCEPT ![u] = FxZero]),
                              FxInt(c.rhs)))

Complete(p, prices) ==
    LET priced == DOMAIN prices
        a0 == [v \in p.vars |-> IF v \in priced THEN prices[v] ELSE FxZero]
    IN  [v \in p.vars |->
            IF v \in priced THEN prices[v]
            ELSE LeastPenalty(p, v, a0, Len(p.constraints))]

\* The assignments the solver's answer is drawn from.
Candidates(p) ==
    IF p.upBound THEN [p.vars -> UnitGrid(p)]
    ELSE {Complete(p, prices) : prices \in [PriceVars(p) -> Breakpoints(p)]}

ObjValue(p, a) == LinValue(p.objective, a)

\* The feasible candidates, each with its objective value.
FeasibleSet(p) ==
    {[values |-> a, objective |-> ObjValue(p, a)] :
        a \in {c \in Candidates(p) : Feasible(p, c)}}

BestValue(p, F) ==
    LET values == {s.objective : s \in F}
    IN  CHOOSE o \in values :
            \A o2 \in values :
                IF p.sense = "Minimize" THEN FxLeq(o, o2) ELSE FxLeq(o2, o)

\* A direction along which a maximisation without upper bounds improves
\* for ever: prices in {0, 1}, penalties completed for right-hand sides 0.
Homogeneous(p) ==
    [p EXCEPT !.constraints =
        [t \in 1..Len(p.constraints) |-> [p.constraints[t] EXCEPT !.rhs = 0]]]

HasRay(p) ==
    /\ ~p.upBound
    /\ p.sense = "Maximize"
    /\ LET h == Homogeneous(p)
       IN  \E prices \in [PriceVars(p) -> {FxZero, FxOne}] :
                FxLt(FxZero, ObjValue(p, Complete(h, prices)))

\* The values left in the variables by a solve that found no optimum are
\* not determined by the problem: any corner of the box of a bounded
\* problem, any candidate of an unbounded one.
UndeterminedValues(p) ==
    IF p.upBound THEN [p.vars -> {FxZero, FxOne}] ELSE Candidates(p)

\* What prob.solve() can leave behind: the status with the variable values
\* and the objective value computed from them.
SolverOutcomes(p) ==
    LET F == FeasibleSet(p)
        st == IF F = {} THEN "Infeasible"
              ELSE IF HasRay(p) THEN "Unbounded"
              ELSE "Optimal"
    IN  IF st = "Optimal"
        THEN LET best == BestValue(p, F)
             IN  {[status |-> st, values |-> s.values, objective |-> best] :
                    s \in {t \in F : t.objective = best}}
        ELSE {[status |-> st, values |-> a, objective |-> ObjValue(p, a)] :
                a \in UndeterminedValues(p)}

SolverStatus(p) == (CHOOSE o \in SolverOutcomes(p) : TRUE).status

\* ---------------------------------------------------------- the extraction
ItemTuple(d, j) == <<j, At(d.weight_item, j), At(d.cost_item, j)>>

\* [(j, weight_item[j], cost_item[j]) for j in range(n) if value(x) > thr]
RECURSIVE SelectAbove(_, _, _, _, _)
SelectAbove(d, a, i, thr, n) ==
    IF n = 0 THEN <<>>
    ELSE LET rest == SelectAbove(d, a, i, thr, n - 1)
         IN  IF FxLt(thr, a[X(i, n - 1)]) THEN Append(rest, ItemTuple(d, n - 1))
             ELSE rest

\* a threshold of 1/2 in place of 1e-5
SingleSelectedAboveHalf(d, a) == SelectAbove(d, a, 0, FxHalf, d.nb_items)

\* lines 32-33: value(x[j]) > 1e-5
SingleSelected(d, a) == SelectAbove(d, a, 0, FxEps, d.nb_items)

\* lines 102-103: value(x[i,j]) > 0
MultiSelected(d, a, i) == SelectAbove(d, a, i, FxZero, d.nb_items)

\* lines 100-103
MultiSelectedByKnapsack(d, a) ==
    [i \in Range(d.nb_knapsacks) |-> MultiSelected(d, a, i)]

\* lines 53-56
SingleDualValues(d, a) ==
    [v1 |-> <<a[V1]>>, uj |-> [t \in 1..d.nb_items |-> a[U(t - 1)]]]

\* lines 126-129
MultiDualValues(d, a) ==
    [vi |-> [t \in 1..d.nb_knapsacks |-> a[Vi(t - 1)]],
     vj |-> [t \in 1..d.nb_items |-> a[Vj(t - 1)]]]

\* --------------------------------------------------------------- the run
\* a check that lets mode 3 through
ValidModesWide == {0, 1, 2, 3}
ValidModes == {0, 1, 2}
PrimalModes == {0, 1}

Init ==
    /\ \/ file \in Files /\ mode \in ModeArgs
       \/ file \in {ScenarioA, ScenarioC} /\ mode = 0
    /\ pc = "main"
    /\ data = NoData
    /\ prob = NoProblem
    /\ status = "None"
    /\ vals = <<>>
    /\ objective = FxZero
    /\ result = NoResult
    /\ reported = FALSE
    /\ exitcode = -1

\* lines 181-187: the mode is checked before anything is read
CheckMode ==
    /\ pc = "main"
    /\ IF mode \notin ValidModes
       THEN pc' = "exit" /\ exitcode' = 1
       ELSE pc' = "read" /\ exitcode' = exitcode
    /\ UNCHANGED <<mode, file, data, prob, status, vals, objective, result,
                   reported>>

\* lines 190-199
ReadData ==
    /\ pc = "read"
    /\ data' = file
    /\ pc' = "dispatch"
    /\ UNCHANGED <<mode, file, prob, status, vals, objective, result, reported,
                   exitcode>>

\* The problem is built, or the build stops at an IndexError (an uncaught
\* exception: exit status 1) with the LpProblem created and nothing solved.
BuildOrRaise(name, sense, built) ==
    /\ IF Indexable(data, data.nb_knapsacks)
       THEN prob' = built /\ pc' = "solve" /\ exitcode' = exitcode
       ELSE prob' = NewProblem(name, sense) /\ pc' = "exit" /\ exitcode' = 1
    /\ UNCHANGED <<mode, file, data, status, vals, objective, result, reported>>

\* lines 201-203, 22-28
BuildSinglePrimal ==
    /\ pc = "dispatch"
    /\ data.nb_knapsacks = 1
    /\ mode \in PrimalModes
    /\ BuildOrRaise("Single_minKP", PrimalSense, SinglePrimalProblem(data, mode))

\* lines 201-203, 36-46
BuildSingleDual ==
    /\ pc = "dispatch"
    /\ data.nb_knapsacks = 1
    /\ mode \notin PrimalModes
    /\ BuildOrRaise("Dual_minKP", DualSense, SingleDualProblem(data))

\* lines 205-207, 76-94
BuildMultiPrimal ==
    /\ pc = "dispatch"
    /\ data.nb_knapsacks # 1
    /\ mode \in PrimalModes
    /\ BuildOrRaise("Multi_minKP", PrimalSense, MultiPrimalProblem(data, mode))

\* lines 205-207, 105-117
BuildMultiDual ==
    /\ pc = "dispatch"
    /\ data.nb_knapsacks # 1
    /\ mode \notin PrimalModes
    /\ BuildOrRaise("Dual_multi_minKP", DualSense, MultiDualProblem(data))

\* lines 30, 48, 97, 120: prob.solve(); LpStatus[prob.status] and
\* value(prob.objective) are read from the solved problem.
Solve ==
    /\ pc = "solve"
    /\ \E o \in SolverOutcomes(prob) :
            /\ status' = o.status
            /\ vals' = o.values
            /\ objective' = o.objective
    /\ pc' = "extract"
    /\ UNCHANGED <<mode, file, data, prob, result, reported, exitcode>>

\* lines 32-34
ExtractSinglePrimal ==
    /\ pc = "extract"
    /\ prob.name = "Single_minKP"
    /\ result' = [kind |-> "selected", items |-> SingleSelected(data, vals)]
    /\ pc' = "report"
    /\ UNCHANGED <<mode, file, data, prob, status, vals, objective, reported,
                   exitcode>>

\* lines 50-57
ExtractSingleDual ==
    /\ pc = "extract"
    /\ prob.name = "Dual_minKP"
    /\ result' = [kind |-> "dual1", values |-> SingleDualValues(data, vals)]
    /\ pc' = "report"
    /\ UNCHANGED <<mode, file, data, prob, status, vals, objective, reported,
                   exitcode>>

\* lines 100-104
ExtractMultiPrimal ==
    /\ pc = "extract"
    /\ prob.name = "Multi_minKP"
    /\ result' = [kind |-> "by_knapsack",
                  items |-> MultiSelectedByKnapsack(data, vals)]
    /\ pc' = "report"
    /\ UNCHANGED <<mode, file, data, prob, status, vals, objective, reported,
                   exitcode>>

\* lines 123-130
ExtractMultiDual ==
    /\ pc = "extract"
    /\ prob.name = "Dual_multi_minKP"
    /\ result' = [kind |-> "dual", values |-> MultiDualValues(data, vals)]
    /\ pc' = "report"
    /\ UNCHANGED <<mode, file, data, prob, status, vals, objective, reported,
                   exitcode>>

\* lines 204, 208: the results are printed and main returns
Report ==
    /\ pc = "report"
    /\ reported' = TRUE
    /\ pc' = "exit"
    /\ exitcode' = 0
    /\ UNCHANGED <<mode, file, data, prob, status, vals, objective, result>>

Next ==
    \/ CheckMode
    \/ ReadData
    \/ BuildSinglePrimal
    \/ BuildSingleDual
    \/ BuildMultiPrimal
    \/ BuildMultiDual
    \/ Solve
    \/ ExtractSinglePrimal
    \/ ExtractSingleDual
    \/ ExtractMultiPrimal
    \/ ExtractMultiDual
    \/ Report

Spec == Init /\ [][Next]_vars

\* ============================================================ properties
PrimalResult == result.kind \in {"selected", "by_knapsack"}
\* the knapsacks of the returned structure and the list returned for each
KnapsackIds == IF result.kind = "selected" THEN {0} ELSE DOMAIN result.items
ListOf(i) == IF result.kind = "selected" THEN result.items ELSE result.items[i]
ItemIds(list) == {list[t][1] : t \in 1..Len(list)}

RECURSIVE SetSum(_, _)
\* the sum of list[j] over the 0-based indices j in S
SetSum(S, list) ==
    IF S = {} THEN 0
    ELSE LET j == CHOOSE e \in S : TRUE
         IN  At(list, j) + SetSum(S \ {j}, list)

Exclusive ==
    \A i1 \in KnapsackIds : \A i2 \in KnapsackIds :
        i1 # i2 => ItemIds(ListOf(i1)) \cap ItemIds(ListOf(i2)) = {}

\* C1 (as claimed): in every multi-knapsack primal result, of mode 0 and of
\* mode 1 alike, no item index is in the lists of two distinct knapsacks.
C1_ExclusiveInEveryPrimalMode == result.kind = "by_knapsack" => Exclusive

\* C1 (amended): in every multi-knapsack result of mode 0 with status
\* Optimal, no item index is in the lists of two distinct knapsacks.
C1_ExclusiveInIntegerMode ==
    (result.kind = "by_knapsack" /\ mode = 0 /\ status = "Optimal") => Exclusive

C1_Witness ==
    /\ result.kind = "by_knapsack"
    /\ mode = 0
    /\ status = "Optimal"
    /\ data.nb_knapsacks = 2
    /\ \A i \in KnapsackIds : Len(ListOf(i)) >= 1

\* C2 (as claimed): a returned structure (selected items or dual values)
\* exists only after a solve whose status is Optimal.
C2_NoPartialResults == result # NoResult => status = "Optimal"

\* C3 (as claimed): for an instance with no knapsack or with vectors whose
\* lengths differ from the declared cardinalities, no model is built, the
\* solver is not invoked and nothing is reported.
C3_MalformedRejected ==
    ~WellFormed(file) =>
        /\ pc \notin {"solve", "extract", "report"}
        /\ status = "None"
        /\ ~reported

\* C4: a mode outside {0,1,2} ends the run with exit status 1 before the
\* instance is read or a model is built; a model exists only for a mode in
\* {0,1,2}, primal for 0 and 1, dual for 2; and a run that solved a problem
\* ends with exit status 0.
C4_ModeValidation ==
    /\ mode \notin {0, 1, 2} =>
            /\ data = NoData
            /\ prob = NoProblem
            /\ status = "None"
            /\ pc \in {"main", "exit"}
            /\ pc = "exit" => exitcode = 1
    /\ prob # NoProblem =>
            /\ mode \in {0, 1, 2}
            /\ prob.sense = "Minimize" <=> mode \in {0, 1}
            /\ prob.sense = "Maximize" <=> mode = 2
    /\ (pc = "exit" /\ status # "None") => exitcode = 0

C4_Witness == mode \notin {0, 1, 2} /\ pc = "exit" /\ exitcode = 1

\* The list the claim describes for knapsack i: the items whose variable is
\* above 1e-5, as (j, weight[j], cost[j]), in strictly ascending j.
AboveEps(i) ==
    {j \in Range(data.nb_items) : FxLt(FxEps, vals[X(i, j)])}

IsSelectionOf(list, S) ==
    /\ ItemIds(list) = S
    /\ Len(list) = Cardinality(S)
    /\ \A t \in 1..Len(list) :
            list[t] = <<list[t][1], At(data.weight_item, list[t][1]),
                        At(data.cost_item, list[t][1])>>
    /\ \A t \in 1..(Len(list) - 1) : list[t][1] < list[t + 1][1]

\* C5 (as claimed): in the single and in the multi path, the list returned
\* for knapsack i is exactly the items j with x[i,j] > 1e-5, in ascending j;
\* an item whose value is in (0, 1e-5] is not in it.
C5_OneThreshold ==
    PrimalResult => \A i \in KnapsackIds : IsSelectionOf(ListOf(i), AboveEps(i))

SelectedWeight(i) == SetSum(ItemIds(ListOf(i)), data.weight_item)
UnselectedWeight(i) ==
    SetSum(Range(data.nb_items) \ ItemIds(ListOf(i)), data.weight_item)

\* C6 (as claimed): with status Optimal, the weights of the items returned
\* for knapsack i sum to at least demand[i] - 1e-5.
C6_SelectionCoversDemand ==
    (PrimalResult /\ status = "Optimal") =>
        \A i \in KnapsackIds :
            FxLeq(FxSub(FxInt(At(data.demand_size, i)), FxEps),
                  FxInt(SelectedWeight(i)))

\* C6 (amended): with status Optimal, the weights of the items returned for
\* knapsack i sum to at least demand[i] - 1e-5 * (the summed weight of the
\* items not returned for i).
C6_SelectionCoversDemandUpToDropped ==
    (PrimalResult /\ status = "Optimal") =>
        \A i \in KnapsackIds :
            FxLeq(FxSub(FxInt(At(data.demand_size, i)),
                        FxMul(UnselectedWeight(i), FxEps)),
                  FxInt(SelectedWeight(i)))

C6_Witness ==
    /\ PrimalResult
    /\ status = "Optimal"
    /\ \E i \in KnapsackIds :
            /\ SelectedWeight(i) < At(data.demand_size, i)
            /\ \E j \in Range(data.nb_items) : FxLt(FxZero, vals[X(i, j)])

\* The multi-knapsack dual: variables vi[i] and vj[j], objective
\* sum demand[i]*vi[i] - sum vj[j], and the constraint
\* weight[j]*vi[i] - vj[j] <= cost[j] for every pair (i, j).
HasPairConstraint(i, j) ==
    \E t \in 1..Len(prob.constraints) :
        LET c == prob.constraints[t]
        IN  /\ c.sense = "<="
            /\ c.rhs = At(data.cost_item, j)
            /\ Len(c.terms) = 2
            /\ Coef(c.terms, Vi(i)) = At(data.weight_item, j)
            /\ Coef(c.terms, Vj(j)) = -1

MultiDualAsClaimed ==
    prob.name = "Dual_multi_minKP" /\ pc = "solve" =>
        /\ prob.vars = {Vi(i) : i \in Range(data.nb_knapsacks)}
                        \cup {Vj(j) : j \in Range(data.nb_items)}
        /\ Len(prob.constraints) = data.nb_knapsacks * data.nb_items
        /\ \A i \in Range(data.nb_knapsacks) : \A j \in Range(data.nb_items) :
                HasPairConstraint(i, j)
        /\ Len(prob.objective) = data.nb_knapsacks + data.nb_items
        /\ \A i \in Range(data.nb_knapsacks) :
                Coef(prob.objective, Vi(i)) = At(data.demand_size, i)
        /\ \A j \in Range(data.nb_items) : Coef(prob.objective, Vj(j)) = -1

\* C7 (as claimed): the dual of the single-knapsack case has the one variable
\* v, the objective demand[0]*v and the constraints weight[j]*v <= cost[j];
\* the multi-knapsack dual has vi[i] and vj[j], and the constraint
\* weight[j]*vi[i] - vj[j] <= cost[j] for every pair (i, j).
C7_SingleDualWithoutItemPrices ==
    /\ prob.name = "Dual_minKP" /\ pc = "solve" =>
            /\ prob.vars = {V1}
            /\ prob.sense = "Maximize"
            /\ Len(prob.objective) = 1
            /\ Coef(prob.objective, V1) = At(data.demand_size, 0)
            /\ Len(prob.constraints) = data.nb_items
            /\ \A t \in 1..Len(prob.constraints) :
                    /\ prob.constraints[t].sense = "<="
                    /\ prob.constraints[t].rhs = At(data.cost_item, t - 1)
                    /\ Len(prob.constraints[t].terms) = 1
                    /\ Coef(prob.constraints[t].terms, V1)
                            = At(data.weight_item, t - 1)
    /\ MultiDualAsClaimed

\* C7 (amended): the dual of the single-knapsack case has v_1 and one
\* variable u_j per item, all >= 0 and unbounded above; its objective is
\* maximize demand[0]*v_1 - sum of the u_j and its constraints are
\* weight[j]*v_1 - u_j <= cost[j] for every item j; the multi-knapsack dual
\* is as claimed.
C7_SingleDualWithItemPrices ==
    /\ prob.name = "Dual_minKP" /\ pc = "solve" =>
            /\ prob.vars = {V1} \cup {U(j) : j \in Range(data.nb_items)}
            /\ prob.sense = "Maximize"
            /\ ~prob.upBound
            /\ Len(prob.objective) = 1 + data.nb_items
            /\ Coef(prob.objective, V1) = At(data.demand_size, 0)
            /\ \A j \in Range(data.nb_items) : Coef(prob.objective, U(j)) = -1
            /\ Len(prob.constraints) = data.nb_items
            /\ \A t \in 1..Len(prob.constraints) :
                    /\ prob.constraints[t].sense = "<="
                    /\ prob.constraints[t].rhs = At(data.cost_item, t - 1)
                    /\ Len(prob.constraints[t].terms) = 2
                    /\ Coef(prob.constraints[t].terms, V1)
                            = At(data.weight_item, t - 1)
                    /\ Coef(prob.constraints[t].terms, U(t - 1)) = -1
    /\ MultiDualAsClaimed

C7_Witness ==
    /\ prob.name = "Dual_minKP"
    /\ pc = "solve"
    /\ data.nb_items = MaxItems
    /\ U(MaxItems - 1) \in prob.vars

\* every demand of a well-formed instance is 0
AllDemandsZero ==
    /\ WellFormed(data)
    /\ \A t \in 1..Len(data.demand_size) : data.demand_size[t] = 0

\* C8 (as claimed): when every demand is 0 (well-formed instance, costs >= 0)
\* a primal solve returns Optimal, objective 0 and an empty list for every
\* knapsack.
C8_ZeroDemandEmptySelection ==
    (PrimalResult /\ AllDemandsZero) =>
        /\ status = "Optimal"
        /\ objective = FxZero
        /\ \A i \in KnapsackIds : ListOf(i) = <<>>

\* C8 (amended): when every demand is 0 a primal solve returns Optimal and
\* objective 0, and every item in a returned list has cost 0 (the lists are
\* empty when every cost is positive).
C8_ZeroDemandZeroCostSelection ==
    (PrimalResult /\ AllDemandsZero) =>
        /\ status = "Optimal"
        /\ objective = FxZero
        /\ \A i \in KnapsackIds : \A j \in ItemIds(ListOf(i)) :
                At(data.cost_item, j) = 0

C8_Witness ==
    /\ PrimalResult
    /\ AllDemandsZero
    /\ \E j \in Range(data.nb_items) : At(data.cost_item, j) > 0
    /\ \E i \in KnapsackIds : ListOf(i) # <<>>

\* The covering partition problem, by enumeration: an assignment sends each
\* item to one knapsack or to none (-1); it covers when the weights sent
\* to each knapsack reach its demand; its cost is that of the items sent.
Assignments(d) == [Range(d.nb_items) -> -1..(d.nb_knapsacks - 1)]
SentTo(asg, i) == {j \in DOMAIN asg : asg[j] = i}
Covers(d, asg) ==
    \A i \in Range(d.nb_knapsacks) :
        SetSum(SentTo(asg, i), d.weight_item) >= At(d.demand_size, i)
CostOf(d, asg) == SetSum({j \in DOMAIN asg : asg[j] # -1}, d.cost_item)
IsMinCost(d, n) ==
    /\ \E asg \in Assignments(d) : Covers(d, asg) /\ CostOf(d, asg) = n
    /\ \A asg \in Assignments(d) : Covers(d, asg) => CostOf(d, asg) >= n

\* the returned lists, read as an assignment, cover the demands
ReturnedCovers ==
    /\ data.nb_knapsacks > 1 => Exclusive
    /\ \A i \in KnapsackIds : SelectedWeight(i) >= At(data.demand_size, i)
ReturnedCost ==
    SetSum(UNION {ItemIds(ListOf(i)) : i \in KnapsackIds}, data.cost_item)

\* C9: in mode 0 with status Optimal the objective is the least cost of a
\* 0/1 assignment that covers every demand with each item in at most one
\* knapsack, and the returned lists are such an assignment of that cost.
\* For demand=[10], weight=[5,6,7], cost=[2,3,4] the result is items 0
\* and 1 with objective 5; for demand=[4,4], weight=[4,4,4], cost=[1,1,1]
\* the objective is 2 and the two knapsacks hold one item each, distinct.
C9_IntegerOptimum ==
    /\ (PrimalResult /\ mode = 0 /\ status = "Optimal" /\ WellFormed(data)) =>
            /\ objective[2] = 0
            /\ IsMinCost(data, objective[1])
            /\ ReturnedCovers
            /\ ReturnedCost = objective[1]
    /\ (PrimalResult /\ mode = 0 /\ data = ScenarioA) =>
            /\ status = "Optimal"
            /\ objective = FxInt(5)
            /\ result.items = <<<<0, 5, 2>>, <<1, 6, 3>>>>
    /\ (PrimalResult /\ mode = 0 /\ data = ScenarioC) =>
            /\ status = "Optimal"
            /\ objective = FxInt(2)
            /\ Len(ListOf(0)) = 1
            /\ Len(ListOf(1)) = 1
            /\ ItemIds(ListOf(0)) # ItemIds(ListOf(1))
            /\ Cardinality(Range(3) \ (ItemIds(ListOf(0)) \cup ItemIds(ListOf(1)))) = 1

C9_Witness ==
    /\ reported
    /\ mode = 0
    /\ data = ScenarioC
    /\ status = "Optimal"

\* The relaxed primal the program builds for the same instance in mode 1.
RelaxedPrimal(d) ==
    IF d.nb_knapsacks = 1 THEN SinglePrimalProblem(d, 1)
    ELSE MultiPrimalProblem(d, 1)

\* |a - b| < 1e-4
Within1e4(a, b) ==
    /\ FxLt(FxSub(a, b), <<0, 10 * EpsNum>>)
    /\ FxLt(FxSub(b, a), <<0, 10 * EpsNum>>)

\* C10: whenever the relaxed primal of the instance is Optimal, the dual
\* built in mode 2 for that instance is Optimal and its objective value is
\* within 1e-4 of the relaxed primal's, single and multi path alike.
C10_StrongDuality ==
    (pc = "extract" /\ mode = 2) =>
        LET primal == CHOOSE o \in SolverOutcomes(RelaxedPrimal(data)) : TRUE
        IN  primal.status = "Optimal" =>
                /\ status = "Optimal"
                /\ Within1e4(objective, primal.objective)

C10_Witness ==
    /\ pc = "extract"
    /\ mode = 2
    /\ data.nb_knapsacks = 2
    /\ status = "Optimal"
    /\ FxLt(FxZero, objective)
    /\ objective[2] # 0

====
